---- MODULE Spec2Model ----
(***************************************************************************)
(* A model of arthur_bench/run/testsuite.py: the TestSuite constructor,    *)
(* TestSuite.run (one action per atomic section of its body) and           *)
(* TestSuite.save, over an abstract file system holding suite directories, *)
(* suite.json files, run directories and run files.                        *)
(*                                                                         *)
(* Optional values: an absent string is "None"; an absent object is the    *)
(* empty sequence << >> and a present one the singleton << x >>.           *)
(***************************************************************************)
EXTENDS Integers, Sequences, FiniteSets, TLC

\* ------------------------------------------------------------------ bounds
MaxCases == 3          \* longest suite / candidate list / context list
MaxOps == 3            \* constructor calls plus run calls in one behaviour

\* ------------------------------------------------------- program constants
DEFAULT_BATCH_SIZE == 32

\* ------------------------------------------------------------ input domains
SuiteNames == {"s1"}
Texts == {"a", "b"}
None == "None"
QACorrectness == "qa_correctness"
ExactMatch == "exact_match"
KnownMethods == {ExactMatch, QACorrectness}
MethodArgs == KnownMethods \cup {"no_such_method"}
BatchSizes == {-1, 0, 1, 2, DEFAULT_BATCH_SIZE}
RunNames == 1 .. MaxOps

\* The reference text the data sources hold for the k-th prompt.
RefOf(k) == IF k % 2 = 1 THEN "a" ELSE "b"

\* A data source of the constructor: no usable source, a dataframe with an
\* input and a reference column, or explicit parallel lists.  Prompt k is the
\* integer k.
DataSources == [kind : {"none", "df", "lists"}, n : 0 .. MaxCases]

\* Candidate lists: of every length, the list of "a"s and the list that starts
\* with "b" and goes on with "a"s.  A context list holds document ids, document
\* k being the one that belongs to prompt k; the lists passed have MaxCases or
\* MaxCases - 1 documents, which is one per case, too few or too many depending
\* on the suite.
CandidateLists ==
    {[k \in 1 .. len |-> IF k = 1 THEN first ELSE "a"] : len \in 0 .. MaxCases, first \in Texts}
NoContext == [given |-> FALSE, list |-> << >>]
ContextLists ==
    {NoContext} \cup {[given |-> TRUE, list |-> [k \in 1 .. len |-> k]] : len \in {MaxCases - 1, MaxCases}}

\* -------------------------------------------------------------------- state
VARIABLES
    suiteDirs,     \* names of the suite directories on disk
    suiteFile,     \* suite name -> << >> or << the suite document in suite.json >>
    runDirs,       \* the run directories on disk, << suite name, run name >>
    runFiles,      \* the saved runs: [dir: run directory, outputs: the run's outputs]
    self,          \* << >> or << [suite, dir] >>: the TestSuite object in use
    cerr,          \* the last constructor call: "None" before any, "created",
                   \* "reused" (the log line of the else branch) or the error raised
    ops,           \* constructor and run calls made so far
    pc,            \* position of the run invocation in progress ("idle": none)
    args,          \* the arguments of the run invocation
    run_dir,       \* run(): run_dir, << >> for None
    i,             \* run(): the loop variable of the batching loop
    all_scores,    \* run(): all_scores
    calls,         \* the run_batch calls of this invocation, in order
    run,           \* run(): << >> or << the TestRun assembled >>
    err,           \* what the run invocation raised ("None": nothing)
    log,           \* the file-system and scoring events of this invocation
    disk0          \* the disk as it was when the run invocation started

vars == << suiteDirs, suiteFile, runDirs, runFiles, self, cerr, ops, pc, args,
           run_dir, i, all_scores, calls, run, err, log, disk0 >>

diskVars == << suiteDirs, suiteFile, runDirs, runFiles >>
runVars == << pc, args, run_dir, i, all_scores, calls, run, err, log, disk0 >>

NoArgs == [run_name |-> 0, candidate_output_list |-> << >>, context_list |-> NoContext,
           save |-> FALSE, batch_size |-> DEFAULT_BATCH_SIZE]
NoErr == [kind |-> None, counts |-> << >>, run_name |-> 0, cause |-> None]
NoDisk == [suiteDirs |-> {}, suiteFile |-> [s \in SuiteNames |-> << >>],
           runDirs |-> {}, runFiles |-> {}]
Disk == [suiteDirs |-> suiteDirs, suiteFile |-> suiteFile, runDirs |-> runDirs, runFiles |-> runFiles]

\* ------------------------------------------------------ pure helper functions
Min(a, b) == IF a < b THEN a ELSE b

\* (mutant) a slice that takes the element at hi too.
Slice_inclusive(s, lo, hi) == SubSeq(s, lo + 1, Min(hi + 1, Len(s)))

\* Python's s[lo:hi] for 0 <= lo: the elements at 0-based positions lo .. hi-1
\* that exist.
Slice(s, lo, hi) == SubSeq(s, lo + 1, Min(hi, Len(s)))

\* (mutant) a zip that pairs a from the front with b from the back.
Zip_reversed(a, b) == [k \in 1 .. Min(Len(a), Len(b)) |-> << a[k], b[Len(b) + 1 - k] >>]

\* Python's zip(a, b) as a sequence of pairs: as long as the shorter one.
Zip(a, b) == [k \in 1 .. Min(Len(a), Len(b)) |-> << a[k], b[k] >>]

\* ------------------------------------------------- the persistence layer
\* (mutant) a lookup that never finds a suite.
get_suite_if_exists_absent(name) == << >>

\* _get_suite_if_exists(name): the suite document persisted under the name, if
\* there is one.
get_suite_if_exists(name) == suiteFile[name]

\* _get_scoring_method(scoring_method): the enum member of a known method
\* name; an unknown name is a user input error.
get_scoring_method(scoring_method) ==
    IF scoring_method \in KnownMethods THEN scoring_method ELSE "UserInputError"

\* _load_suite_from_args(...): the test cases of the first usable source.  A
\* dataframe gives the reference column (no references when reference_column
\* is None); explicit lists give reference_output_list as it was passed.
load_suite_from_args(data, reference_column) ==
    [k \in 1 .. data.n |->
        [input |-> k,
         reference_output |->
            IF data.kind = "df" /\ reference_column = None THEN None ELSE RefOf(k)]]

\* The branch of __init__ taken when no suite of that name is persisted.
BuildSuite(name, scoring_method, data) ==
    LET method == get_scoring_method(scoring_method)
        reference_column == IF method = QACorrectness THEN None ELSE "reference_output"
    IN  [name |-> name,
         scoring_method |-> method,
         test_cases |-> load_suite_from_args(data, reference_column)]

\* (mutant) a constructor that creates the suite directory before it resolves
\* the scoring method and loads the data.
Constructor_directoryFirst(found, name, scoring_method, data) ==
    /\ pc = "idle"
    /\ ops < MaxOps
    /\ ops' = ops + 1
    /\ IF found = << >>
       THEN /\ suiteDirs' = suiteDirs \cup {name}
            /\ IF get_scoring_method(scoring_method) = "UserInputError" \/ data.kind = "none"
               THEN /\ cerr' = "UserInputError"
                    /\ UNCHANGED self
               ELSE /\ cerr' = "created"
                    /\ self' = << [suite |-> BuildSuite(name, scoring_method, data),
                                   dir |-> name] >>
       ELSE /\ cerr' = "reused"
            /\ self' = << [suite |-> found[1], dir |-> name] >>
            /\ UNCHANGED suiteDirs
    /\ UNCHANGED << suiteFile, runDirs, runFiles >>
    /\ UNCHANGED runVars

\* The body of __init__ once the lookup has answered `found`.
Constructor(found, name, scoring_method, data) ==
    /\ pc = "idle"
    /\ ops < MaxOps
    /\ ops' = ops + 1
    /\ IF found = << >>
       THEN IF get_scoring_method(scoring_method) = "UserInputError" \/ data.kind = "none"
            THEN /\ cerr' = "UserInputError"
                 /\ UNCHANGED << self, suiteDirs >>
            ELSE /\ cerr' = "created"
                 /\ self' = << [suite |-> BuildSuite(name, scoring_method, data), dir |-> name] >>
                 /\ suiteDirs' = suiteDirs \cup {name}
       ELSE /\ cerr' = "reused"
            /\ self' = << [suite |-> found[1], dir |-> name] >>
            /\ UNCHANGED suiteDirs
    /\ UNCHANGED << suiteFile, runDirs, runFiles >>
    /\ UNCHANGED runVars

\* (mutant) a constructor that never looks for a persisted suite.
Construct_alwaysBuilds(name, scoring_method, data) ==
    Constructor(<< >>, name, scoring_method, data)

\* TestSuite.__init__(name, scoring_method, reference data ...)
Construct(name, scoring_method, data) ==
    Constructor(get_suite_if_exists(name), name, scoring_method, data)

\* ------------------------------------------------------------ TestSuite.run
obj == self[1]
test_cases == obj.suite.test_cases
n_cases == Len(test_cases)

\* _create_run_dir(suite name, run_name): the directory of the run under the
\* suite's directory.
create_run_dir(suite_name, run_name) == << suite_name, run_name >>

\* (mutant) a length check that only rejects too many candidates.
LengthMismatch_tooMany(candidate_output_list, cases) == Len(candidate_output_list) > Len(cases)

\* `len(candidate_output_list) != len(self.suite.test_cases)`
LengthMismatch(candidate_output_list, cases) == Len(candidate_output_list) # Len(cases)

\* run() is called and runs up to the try block: _load_run_data_from_args
\* resolves the candidate list and the context list (explicit lists are
\* returned as they were passed), the lengths are compared, the scoring
\* method is loaded and, if save, the run directory is created.
RunCall(run_name, candidate_output_list, context_list, save, batch_size) ==
    /\ pc = "idle"
    /\ self # << >>
    /\ ops < MaxOps
    /\ ops' = ops + 1
    /\ args' = [run_name |-> run_name, candidate_output_list |-> candidate_output_list,
                context_list |-> context_list, save |-> save, batch_size |-> batch_size]
    /\ disk0' = Disk
    /\ IF LengthMismatch(candidate_output_list, test_cases)
       THEN /\ pc' = "failed_validation"
            /\ err' = [NoErr EXCEPT !.kind = "UserValueError",
                                    !.counts = << Len(candidate_output_list), n_cases >>]
            /\ UNCHANGED << runDirs, run_dir, log >>
       ELSE /\ pc' = "batching"
            /\ IF save
               THEN /\ run_dir' = << create_run_dir(obj.suite.name, run_name) >>
                    /\ runDirs' = runDirs \cup {create_run_dir(obj.suite.name, run_name)}
                    /\ log' = Append(log, "create_run_dir")
               ELSE UNCHANGED << runDirs, run_dir, log >>
            /\ UNCHANGED err
    /\ UNCHANGED << suiteDirs, suiteFile, runFiles, self, cerr, i, all_scores, calls, run >>

\* The slices run() builds for the chunk that starts at index lo.
case_batch(cases, lo, batch_size) == Slice(cases, lo, lo + batch_size)
input_batch(cases, lo, batch_size) ==
    [k \in 1 .. Len(case_batch(cases, lo, batch_size)) |-> case_batch(cases, lo, batch_size)[k].input]
ref_batch(cases, lo, batch_size) ==
    [k \in 1 .. Len(case_batch(cases, lo, batch_size)) |->
        case_batch(cases, lo, batch_size)[k].reference_output]
\* (mutant) the candidate slice always taken from the start of the list.
candidate_batch_fromStart(candidate_output_list, lo, batch_size) ==
    Slice(candidate_output_list, 0, batch_size)

candidate_batch(candidate_output_list, lo, batch_size) ==
    Slice(candidate_output_list, lo, lo + batch_size)
context_batch(context_list, lo, batch_size) ==
    IF context_list.given
    THEN [given |-> TRUE, list |-> Slice(context_list.list, lo, lo + batch_size)]
    ELSE NoContext

\* The score of one tuple: exact match compares candidate and reference; the
\* question-answering method accepts answer "a" when the document handed in
\* is the one of the prompt.
ScoreOf(method, reference, candidate, input, context) ==
    IF method = QACorrectness
    THEN IF context = input /\ candidate = "a" THEN 1 ELSE 0
    ELSE IF candidate = reference THEN 1 ELSE 0

\* ScoringMethod.run_batch when it returns: one score per input, in order.
\* Position k of a context list too short to have one has no document (0).
run_batch(method, references, candidates, inputs, context) ==
    [k \in 1 .. Len(inputs) |->
        ScoreOf(method, references[k], candidates[k], inputs[k],
                IF context.given /\ k <= Len(context.list) THEN context.list[k] ELSE 0)]

\* The run_batch call of the chunk that starts at lo: what it is handed, and
\* whether it raised or which scores it returned.
TheCall(suite, a, lo, raised) ==
    LET references == ref_batch(suite.test_cases, lo, a.batch_size)
        candidates == candidate_batch(a.candidate_output_list, lo, a.batch_size)
        inputs == input_batch(suite.test_cases, lo, a.batch_size)
        context == context_batch(a.context_list, lo, a.batch_size)
    IN  [lo |-> lo, references |-> references, candidates |-> candidates,
         inputs |-> inputs, context |-> context, raised |-> raised,
         scores |-> IF raised THEN << >>
                    ELSE run_batch(suite.scoring_method, references, candidates, inputs, context)]

\* The try block as a function of its inputs, for a positive batch size and no
\* call raising: the scores of the chunks from index lo on, concatenated.
RECURSIVE ScoresFrom(_, _, _)
ScoresFrom(suite, a, lo) ==
    IF lo >= Len(suite.test_cases) THEN << >>
    ELSE TheCall(suite, a, lo, FALSE).scores \o ScoresFrom(suite, a, lo + a.batch_size)

\* The loop `for i in range(0, len(test_cases), batch_size)` has a next value.
InLoop == args.batch_size > 0 /\ i < n_cases
LoopOver == args.batch_size < 0 \/ (args.batch_size > 0 /\ i >= n_cases)

\* _clean_up_run(run_dir): the run directory and what it holds are removed.
clean_up_run(dirs, dir) == dirs \ {dir}

\* The except clause, with the run directories left once it has cleaned up:
\* log, clean up, raise ArthurInternalError from the cause.
Handler(cause, dirsLeft) ==
    /\ pc' = "failed_scoring"
    /\ err' = [NoErr EXCEPT !.kind = "ArthurInternalError", !.run_name = args.run_name,
                            !.cause = cause]
    /\ runDirs' = dirsLeft
    /\ runFiles' = {f \in runFiles : f.dir \in dirsLeft}
    /\ log' = IF dirsLeft # runDirs THEN Append(log, "clean_up_run") ELSE log
    /\ UNCHANGED << suiteDirs, suiteFile, self, cerr, ops, args, run_dir, i, all_scores,
                    run, disk0 >>

\* (mutant) an except clause that does not clean up.
Except_noCleanUp(cause) == Handler(cause, runDirs)

\* (mutant) an except clause that removes the runs of the whole suite.
Except_removesAllRuns(cause) == Handler(cause, {d \in runDirs : d[1] # obj.suite.name})

\* (mutant) an except clause that cleans up the suite's directory instead of
\* the run's: suite.json and every run of the suite go with it.
Except_removesSuiteDir(cause) ==
    /\ pc' = "failed_scoring"
    /\ err' = [NoErr EXCEPT !.kind = "ArthurInternalError", !.run_name = args.run_name,
                            !.cause = cause]
    /\ suiteDirs' = IF run_dir # << >> THEN suiteDirs \ {obj.dir} ELSE suiteDirs
    /\ suiteFile' = IF run_dir # << >> THEN [suiteFile EXCEPT ![obj.dir] = << >>] ELSE suiteFile
    /\ runDirs' = IF run_dir # << >> THEN {d \in runDirs : d[1] # obj.dir} ELSE runDirs
    /\ runFiles' = IF run_dir # << >> THEN {f \in runFiles : f.dir[1] # obj.dir} ELSE runFiles
    /\ log' = IF run_dir # << >> THEN Append(log, "clean_up_run") ELSE log
    /\ UNCHANGED << self, cerr, ops, args, run_dir, i, all_scores, run, disk0 >>

\* The except clause: `if run_dir: _clean_up_run(run_dir=run_dir)`.
Except(cause) ==
    Handler(cause, IF run_dir # << >> THEN clean_up_run(runDirs, run_dir[1]) ELSE runDirs)

\* (mutant) a loop body that does not move on to the next chunk.
ScoreChunk_sameChunkAgain ==
    /\ pc = "batching"
    /\ InLoop
    /\ calls' = Append(calls, TheCall(obj.suite, args, i, FALSE))
    /\ all_scores' = all_scores \o TheCall(obj.suite, args, i, FALSE).scores
    /\ i' = IF Len(calls) % 2 = 0 THEN i ELSE i + args.batch_size
    /\ log' = Append(log, "run_batch")
    /\ UNCHANGED << suiteDirs, suiteFile, runDirs, runFiles, self, cerr, ops, pc, args,
                    run_dir, run, err, disk0 >>

\* One pass of the loop body in which run_batch returns.
ScoreChunk ==
    /\ pc = "batching"
    /\ InLoop
    /\ calls' = Append(calls, TheCall(obj.suite, args, i, FALSE))
    /\ all_scores' = all_scores \o TheCall(obj.suite, args, i, FALSE).scores
    /\ i' = i + args.batch_size
    /\ log' = Append(log, "run_batch")
    /\ UNCHANGED << suiteDirs, suiteFile, runDirs, runFiles, self, cerr, ops, pc, args,
                    run_dir, run, err, disk0 >>

\* One pass of the loop body in which run_batch raises.
ScoreChunkRaises ==
    /\ pc = "batching"
    /\ InLoop
    /\ calls' = Append(calls, TheCall(obj.suite, args, i, TRUE))
    /\ Except("ScoringError")

\* range(0, n, 0) raises ValueError inside the try block.
RangeRaises ==
    /\ pc = "batching"
    /\ args.batch_size = 0
    /\ UNCHANGED calls
    /\ Except("ValueError")

\* The loop is over: the outputs are zipped with the scores and the TestRun
\* is built.
Assemble ==
    /\ pc = "batching"
    /\ LoopOver
    /\ pc' = "assembled"
    /\ run' = << [name |-> args.run_name,
                  test_case_outputs |->
                      [k \in 1 .. Len(Zip(args.candidate_output_list, all_scores)) |->
                          [output |-> Zip(args.candidate_output_list, all_scores)[k][1],
                           score |-> Zip(args.candidate_output_list, all_scores)[k][2]]],
                  run_dir |-> run_dir] >>
    /\ UNCHANGED << suiteDirs, suiteFile, runDirs, runFiles, self, cerr, ops, args,
                    run_dir, i, all_scores, calls, err, log, disk0 >>

\* (mutant) a save that writes nothing.
save_suite_skipped(files, o) == files

\* TestSuite.save(): write the suite document to suite.json in the suite's
\* directory.
save_suite(files, o) == [files EXCEPT ![o.dir] = << o.suite >>]

\* TestRun.save(): write the run into its run directory.
save_run(files, r) == files \cup {[dir |-> r.run_dir[1], outputs |-> r.test_case_outputs]}

\* `if save: self.save()`
SaveSuite ==
    /\ pc = "assembled"
    /\ args.save
    /\ suiteFile' = save_suite(suiteFile, obj)
    /\ log' = Append(log, "suite.save")
    /\ pc' = "suite_saved"
    /\ UNCHANGED << suiteDirs, runDirs, runFiles, self, cerr, ops, args, run_dir, i,
                    all_scores, calls, run, err, disk0 >>

\* `run.save()` and `return run`
SaveRun ==
    /\ pc = "suite_saved"
    /\ runFiles' = save_run(runFiles, run[1])
    /\ log' = Append(log, "run.save")
    /\ pc' = "persisted"
    /\ UNCHANGED << suiteDirs, suiteFile, runDirs, self, cerr, ops, args, run_dir, i,
                    all_scores, calls, run, err, disk0 >>

\* (mutant) a run that saves the suite whatever the save flag says.
ReturnUnsaved_savesAnyway ==
    /\ pc = "assembled"
    /\ ~args.save
    /\ pc' = "done"
    /\ suiteFile' = save_suite(suiteFile, obj)
    /\ UNCHANGED << suiteDirs, runDirs, runFiles, self, cerr, ops, args,
                    run_dir, i, all_scores, calls, run, err, log, disk0 >>

\* `return run` when save is false.
ReturnUnsaved ==
    /\ pc = "assembled"
    /\ ~args.save
    /\ pc' = "done"
    /\ UNCHANGED << suiteDirs, suiteFile, runDirs, runFiles, self, cerr, ops, args,
                    run_dir, i, all_scores, calls, run, err, log, disk0 >>

\* An exception raised after the try block leaves run() as it is: the write of
\* suite.json in self.save() fails (OSError from write_text).
SaveSuiteRaises ==
    /\ pc = "assembled"
    /\ args.save
    /\ pc' = "failed_save"
    /\ err' = [NoErr EXCEPT !.kind = "OSError"]
    /\ UNCHANGED << suiteDirs, suiteFile, runDirs, runFiles, self, cerr, ops, args,
                    run_dir, i, all_scores, calls, run, log, disk0 >>

\* run.save() raises; its exception leaves run() too.
SaveRunRaises ==
    /\ pc = "suite_saved"
    /\ pc' = "failed_save"
    /\ err' = [NoErr EXCEPT !.kind = "OSError"]
    /\ UNCHANGED << suiteDirs, suiteFile, runDirs, runFiles, self, cerr, ops, args,
                    run_dir, i, all_scores, calls, run, log, disk0 >>

\* The terminal states of the run state machine, and the ways run() can end.
Terminal == {"failed_validation", "failed_scoring", "done", "persisted"}
Exits == Terminal \cup {"failed_save"}

\* The call is over; the caller goes on.
Finish ==
    /\ pc \in Exits
    /\ pc' = "idle"
    /\ args' = NoArgs
    /\ run_dir' = << >>
    /\ i' = 0
    /\ all_scores' = << >>
    /\ calls' = << >>
    /\ run' = << >>
    /\ err' = NoErr
    /\ log' = << >>
    /\ disk0' = NoDisk
    /\ UNCHANGED << suiteDirs, suiteFile, runDirs, runFiles, self, cerr, ops >>

\* ------------------------------------------------------------ specification
Init ==
    /\ suiteDirs = {}
    /\ suiteFile = [s \in SuiteNames |-> << >>]
    /\ runDirs = {}
    /\ runFiles = {}
    /\ self = << >>
    /\ cerr = None
    /\ ops = 0
    /\ pc = "idle"
    /\ args = NoArgs
    /\ run_dir = << >>
    /\ i = 0
    /\ all_scores = << >>
    /\ calls = << >>
    /\ run = << >>
    /\ err = NoErr
    /\ log = << >>
    /\ disk0 = NoDisk

DoConstruct == \E name \in SuiteNames, m \in MethodArgs, data \in DataSources :
                  Construct(name, m, data)
DoRunCall == \E c \in CandidateLists, x \in ContextLists, s \in BOOLEAN, b \in BatchSizes :
                  RunCall(ops + 1, c, x, s, b)

Next ==
    \/ DoConstruct
    \/ DoRunCall
    \/ ScoreChunk
    \/ ScoreChunkRaises
    \/ RangeRaises
    \/ Assemble
    \/ SaveSuite
    \/ SaveRun
    \/ SaveSuiteRaises
    \/ SaveRunRaises
    \/ ReturnUnsaved
    \/ Finish

Spec == Init /\ [][Next]_vars

\* The steps of an invocation of run() after the call.  run() is synchronous:
\* once called it keeps executing, and every run_batch call returns or raises.
RunStep ==
    \/ ScoreChunk
    \/ ScoreChunkRaises
    \/ RangeRaises
    \/ Assemble
    \/ SaveSuite
    \/ SaveRun
    \/ SaveSuiteRaises
    \/ SaveRunRaises
    \/ ReturnUnsaved

LiveSpec == Spec /\ WF_vars(RunStep)

\* ------------------------------------------------------------------- claims
Success == pc \in {"assembled", "suite_saved", "done", "persisted"}
Returned == pc \in {"done", "persisted"}
InRun == pc # "idle"
candidates == args.candidate_output_list
outputs == run[1].test_case_outputs
OutScores == [k \in 1 .. Len(outputs) |-> outputs[k].score]
Ceil(n, b) == (n + b - 1) \div b
LastCallRaised == calls # << >> /\ calls[Len(calls)].raised

\* C1: a run whose candidate list is not as long as the suite raises
\* UserValueError citing both counts; no run directory is created, run_batch is
\* never called, and nothing is written to disk.
C1_LengthMismatchFailsFast ==
    (InRun /\ Len(candidates) # n_cases) =>
        /\ pc = "failed_validation"
        /\ err.kind = "UserValueError"
        /\ err.counts = << Len(candidates), n_cases >>
        /\ run_dir = << >>
        /\ calls = << >>
        /\ log = << >>
        /\ run = << >>
        /\ Disk = disk0

C1_Witness ==
    /\ pc = "failed_validation"
    /\ args.save
    /\ n_cases > 0
    /\ Len(candidates) > 0

\* C2 (as claimed): every TestRun that run returns has one output per test case
\* of the suite, and output k is candidate k.
C2_OneOutputPerCase ==
    Returned =>
        /\ Len(outputs) = n_cases
        /\ \A k \in 1 .. Len(outputs) : outputs[k].output = candidates[k]

\* C3: when run_batch raises in a run with save requested, the call raises
\* ArthurInternalError naming the run with the original exception as cause, the
\* run directory of this invocation is gone and no run file exists for it.
C3_ScoringFailureCleansUp ==
    (InRun /\ args.save /\ LastCallRaised) =>
        /\ pc = "failed_scoring"
        /\ err.kind = "ArthurInternalError"
        /\ err.run_name = args.run_name
        /\ err.cause = "ScoringError"
        /\ run_dir # << >>
        /\ run_dir[1] \notin runDirs
        /\ \A f \in runFiles : f.dir # run_dir[1]
        /\ run = << >>

C3_Witness ==
    /\ pc = "failed_scoring"
    /\ args.save
    /\ Len(calls) >= 2
    /\ LastCallRaised

\* C4: for a positive batch size, the scores of a successful run are the scores
\* the same suite, candidates and context give under every other positive batch
\* size, in the same order.
C4_BatchingTransparent ==
    (Success /\ args.batch_size > 0) =>
        \A b \in 1 .. (MaxCases + 1) :
            OutScores = ScoresFrom(obj.suite, [args EXCEPT !.batch_size = b], 0)

C4_Witness ==
    /\ Returned
    /\ args.batch_size = 2
    /\ n_cases = 3
    /\ \E j, k \in 1 .. Len(outputs) : outputs[j].score # outputs[k].score

\* C5: for n cases and a positive batch size b, call k (from 0) is handed the
\* slices of the indices k*b .. min((k+1)*b, n)-1, calls are made in increasing
\* index order, and a run whose loop finished made exactly ceil(n/b) calls.
C5_ChunksPartitionTheSuite ==
    (InRun /\ args.batch_size > 0) =>
        /\ Len(calls) <= Ceil(n_cases, args.batch_size)
        /\ Success => Len(calls) = Ceil(n_cases, args.batch_size)
        /\ \A k \in 1 .. Len(calls) :
              LET lo == (k - 1) * args.batch_size
                  hi == Min(k * args.batch_size, n_cases)
              IN  /\ calls[k].lo = lo
                  /\ lo < hi
                  /\ k < Ceil(n_cases, args.batch_size) => hi - lo = args.batch_size
                  /\ calls[k].inputs = [j \in 1 .. (hi - lo) |-> test_cases[lo + j].input]
                  /\ calls[k].references =
                        [j \in 1 .. (hi - lo) |-> test_cases[lo + j].reference_output]
                  /\ calls[k].candidates = [j \in 1 .. (hi - lo) |-> candidates[lo + j]]

C5_Witness ==
    /\ Success
    /\ n_cases = 3
    /\ args.batch_size = 2
    /\ Len(calls) = 2
    /\ Len(calls[1].inputs) = 2
    /\ Len(calls[2].inputs) = 1

C5_EmptySuiteWitness ==
    /\ Success
    /\ n_cases = 0
    /\ args.batch_size > 0
    /\ calls = << >>

\* C6: a constructor call whose name has a persisted suite yields that suite as
\* persisted, raises nothing whatever scoring method and data were passed, and
\* leaves the disk as it was.
C6_ExistingSuiteReused ==
    [][\A name \in SuiteNames, m \in MethodArgs, data \in DataSources :
          (Construct(name, m, data) /\ suiteFile[name] # << >>) =>
              /\ self' = << [suite |-> suiteFile[name][1], dir |-> name] >>
              /\ cerr' = "reused"
              /\ UNCHANGED diskVars]_vars

C6_Witness ==
    /\ pc = "idle"
    /\ cerr = "reused"
    /\ self[1].suite = suiteFile["s1"][1]

\* C7 (as claimed): with context supplied, every run_batch call is handed a
\* context slice as long as its other three slices whose position j is the
\* document of the test case at position j; without context, none is handed.
C7_ContextAligned ==
    \A k \in 1 .. Len(calls) :
        IF args.context_list.given
        THEN /\ calls[k].context.given
             /\ Len(calls[k].context.list) = Len(calls[k].inputs)
             /\ Len(calls[k].references) = Len(calls[k].inputs)
             /\ Len(calls[k].candidates) = Len(calls[k].inputs)
             /\ \A j \in 1 .. Len(calls[k].inputs) :
                    calls[k].context.list[j] = calls[k].inputs[j]
        ELSE calls[k].context = NoContext

\* C8: in a returned TestRun, the score of output k is the score run_batch
\* returned for test case k, i.e. for reference k, candidate k and input k; with
\* exact match it is 1 when candidate k is reference k and 0 otherwise.
C8_ScoresInSuiteOrder ==
    Returned =>
        \A k \in 1 .. Len(outputs) :
            /\ \E c \in 1 .. Len(calls) :
                  LET j == k - calls[c].lo
                  IN  /\ j \in 1 .. Len(calls[c].scores)
                      /\ calls[c].inputs[j] = test_cases[k].input
                      /\ calls[c].references[j] = test_cases[k].reference_output
                      /\ calls[c].candidates[j] = candidates[k]
                      /\ outputs[k].score = calls[c].scores[j]
            /\ obj.suite.scoring_method = ExactMatch =>
                  outputs[k].score =
                      IF candidates[k] = test_cases[k].reference_output THEN 1 ELSE 0

C8_Witness ==
    /\ Returned
    /\ obj.suite.scoring_method = ExactMatch
    /\ outputs = << [output |-> "a", score |-> 1], [output |-> "a", score |-> 0] >>

\* C9: a run that failed in scoring has no TestRun, and the disk is as it was
\* when the call started: the suite directories, suite.json and the directories
\* and files of earlier runs are unchanged, and only the run directory this
\* invocation created has been removed.
C9_FailureLeavesDiskAsFound ==
    pc = "failed_scoring" =>
        /\ run = << >>
        /\ suiteDirs = disk0.suiteDirs
        /\ suiteFile = disk0.suiteFile
        /\ runDirs = disk0.runDirs
        /\ runFiles = disk0.runFiles

C9_Witness ==
    /\ pc = "failed_scoring"
    /\ args.save
    /\ all_scores # << >>
    /\ disk0.runFiles # {}
    /\ disk0.suiteFile["s1"] # << >>

\* C10: with save requested, the run directory exists from before the first
\* run_batch call; a returned run has created the directory, then made all its
\* run_batch calls, then saved the suite, then saved the run, and both are on
\* disk.
C10_SaveOrder ==
    (InRun /\ args.save) =>
        /\ pc = "batching" =>
              /\ run_dir # << >> /\ run_dir[1] \in runDirs
              /\ log = << "create_run_dir" >> \o [k \in 1 .. Len(calls) |-> "run_batch"]
        /\ pc = "suite_saved" =>
              /\ suiteFile[obj.dir] = << obj.suite >>
              /\ \A f \in runFiles : f.dir # run_dir[1]
        /\ pc # "done"
        /\ pc = "persisted" =>
              /\ log = << "create_run_dir" >> \o [k \in 1 .. Len(calls) |-> "run_batch"]
                           \o << "suite.save", "run.save" >>
              /\ suiteFile[obj.dir] = << obj.suite >>
              /\ [dir |-> run_dir[1], outputs |-> outputs] \in runFiles
              /\ run_dir[1] \in runDirs

C10_Witness ==
    /\ pc = "persisted"
    /\ Len(calls) >= 2

\* C11: a run without save never creates or deletes a directory and writes no
\* file, whether it succeeds or fails in scoring; when its loop has finished it
\* returns the assembled TestRun, which has no run directory.
C11_UnsavedRunLeavesDiskAlone ==
    (InRun /\ ~args.save) =>
        /\ Disk = disk0
        /\ run_dir = << >>
        /\ \A k \in 1 .. Len(log) : log[k] = "run_batch"
        /\ pc \notin {"suite_saved", "persisted", "failed_save"}
        /\ pc = "assembled" => ENABLED ReturnUnsaved
        /\ pc = "done" =>
              /\ run # << >>
              /\ run[1].run_dir = << >>
              /\ Len(outputs) = Len(Zip(candidates, all_scores))

C11_Witness ==
    /\ pc = "done"
    /\ ~args.save
    /\ Len(outputs) = 3
    /\ disk0.suiteFile["s1"] = << >>

C11_FailureWitness ==
    /\ pc = "failed_scoring"
    /\ ~args.save
    /\ LastCallRaised
    /\ disk0.runDirs # {}

C13_ConstructionIdempotent ==
    [][\A name \in SuiteNames, m \in MethodArgs, data \in DataSources :
          (Construct(name, m, data) /\ self # << >> /\ self[1].dir = name) =>
              self'[1].suite.test_cases = self[1].suite.test_cases]_vars

\* C14 (as claimed): a suite built for QACorrectness holds no reference
\* outputs, whichever way the references were supplied.
C14_QAIgnoresReferences ==
    (self # << >> /\ obj.suite.scoring_method = QACorrectness) =>
        \A k \in 1 .. n_cases : test_cases[k].reference_output = None

\* C15: a constructor call that raises a user input error (unknown scoring
\* method, or no usable data source) creates no suite directory, writes
\* nothing, and leaves no new object.
C15_FailedConstructionNoSideEffects ==
    [][\A name \in SuiteNames, m \in MethodArgs, data \in DataSources :
          (Construct(name, m, data)
              /\ suiteFile[name] = << >>
              /\ (m \notin KnownMethods \/ data.kind = "none")) =>
              /\ cerr' = "UserInputError"
              /\ UNCHANGED diskVars
              /\ UNCHANGED self]_vars

C15_Witness ==
    /\ cerr = "UserInputError"
    /\ suiteDirs = {}
    /\ ops > 0

\* The state of the run state machine a position of run() belongs to.  The
\* call passes INIT and VALIDATING inside RunCall; a run whose save raised
\* ended in ASSEMBLED.
StateOf(p) ==
    CASE p = "idle" -> "INIT"
      [] p = "failed_validation" -> "FAILED_VALIDATION"
      [] p = "batching" -> "BATCHING"
      [] p = "failed_scoring" -> "FAILED_SCORING"
      [] p \in {"assembled", "suite_saved", "failed_save"} -> "ASSEMBLED"
      [] p = "persisted" -> "PERSISTED"
      [] p = "done" -> "DONE"

Successors(st) ==
    CASE st = "INIT" -> {"FAILED_VALIDATION", "BATCHING"}
      [] st = "BATCHING" -> {"FAILED_SCORING", "ASSEMBLED"}
      [] st = "ASSEMBLED" -> {"PERSISTED", "DONE"}
      [] OTHER -> {}

\* C16: inside one invocation the state only moves forward along INIT /
\* VALIDATING, FAILED_VALIDATION or BATCHING, FAILED_SCORING or ASSEMBLED,
\* PERSISTED or DONE; run_batch calls are made one per step, each for a chunk
\* that starts after every chunk dispatched before, only while BATCHING, and
\* never after a call that raised.
C16_StatesInOrder ==
    [][pc' # "idle" =>
          /\ StateOf(pc') # StateOf(pc) => StateOf(pc') \in Successors(StateOf(pc))
          /\ \/ calls' = calls
             \/ /\ pc = "batching"
                /\ ~LastCallRaised
                /\ Len(calls') = Len(calls) + 1
                /\ SubSeq(calls', 1, Len(calls)) = calls
                /\ \A k \in 1 .. Len(calls) : calls[k].lo < calls'[Len(calls')].lo
                /\ calls'[Len(calls')].raised => pc' = "failed_scoring"]_vars

C16_Witness ==
    /\ pc = "persisted"
    /\ Len(calls) = 3
    /\ calls[1].lo < calls[2].lo
    /\ calls[2].lo < calls[3].lo

\* Every invocation of run() comes to an end (checked under LiveSpec).
RunTerminates == InRun ~> (pc \in Exits)

\* C17 (as claimed): an invocation that has no step left is in one of the four
\* terminal states FAILED_VALIDATION, FAILED_SCORING, DONE, PERSISTED.
C17_EndsInTerminalState ==
    (InRun /\ ~ENABLED RunStep) => pc \in Terminal

\* C18 (as claimed): when an invocation that created a run directory has ended
\* by raising, in scoring or in saving, that directory is gone.
C18_RaisingRunRemovesItsDirectory ==
    (pc \in {"failed_scoring", "failed_save"} /\ run_dir # << >>) =>
        run_dir[1] \notin runDirs

\* C19 (as claimed): run raises ArthurInternalError only if a run_batch call of
\* the invocation raised.
C19_InternalErrorOnlyFromScoring ==
    err.kind = "ArthurInternalError" => LastCallRaised

\* C20 (as claimed): a run called with a batch size of zero or less returns no
\* TestRun and writes neither suite.json nor a run file.
C20_NonPositiveBatchSizeRejected ==
    (InRun /\ args.batch_size <= 0) =>
        /\ ~Returned
        /\ suiteFile = disk0.suiteFile
        /\ runFiles = disk0.runFiles

====
